---------------------------- MODULE Spec2Model ----------------------------
(***************************************************************************)
(* A model of go_api_template: the workout store (CreateWorkout inside a   *)
(* transaction, GetWorkoutByID as two separate queries), the password      *)
(* record, the token lookup, the identity middleware and the workout       *)
(* handlers behind the route table.                                        *)
(***************************************************************************)
EXTENDS Integers, Sequences, FiniteSets, TLC

(***************************************************************************)
(* Bounds of the model.                                                    *)
(***************************************************************************)
MaxWorkouts == 1

MaxEntries == 2

MaxOrderIndex == 2

MaxUsers == 2

MaxTime == 2

MaxTTL == 1

MaxHeaderLen == 3

(***************************************************************************)
(* Values.                                                                 *)
(***************************************************************************)
NULL == [null |-> TRUE]

nilInt == <<>>

ptrInt(i) == <<i>>

NoError == "nil"

DriverError == "driver error"

ErrNoRows == "sql: no rows in result set"

UserIDs == 1..MaxUsers

\* password{}: no plaintext, no hash.
EmptyPassword == [plainText |-> <<>>, hash |-> <<>>]

(***************************************************************************)
(* State.                                                                  *)
(*   workouts, workout_entries   the committed rows of the two tables      *)
(*   workouts_id_seq, entries_id_seq   the serial columns' sequences       *)
(*   tx          the transaction of the CreateWorkout call in progress     *)
(*   createRet   what the last CreateWorkout call returned                 *)
(*   rd          the GetWorkoutByID call in progress (between its queries) *)
(*   getRet      what the last GetWorkoutByID call returned                *)
(*   main        where main() is, from flag.Parse to the end of the process *)
(***************************************************************************)
VARIABLES workouts, workout_entries, workouts_id_seq, entries_id_seq,
          tx, createRet, rd, getRet,
          users, tokens, now, pw, authRet,
          http,
          main

storeVars == <<workouts, workout_entries, workouts_id_seq, entries_id_seq,
               tx, createRet, rd, getRet>>

authVars == <<users, tokens, now, pw, authRet>>

vars == <<workouts, workout_entries, workouts_id_seq, entries_id_seq,
          tx, createRet, rd, getRet, users, tokens, now, pw, authRet, http, main>>

(***************************************************************************)
(* store.WorkoutEntry and store.Workout as the caller hands them in.       *)
(***************************************************************************)
WorkoutEntry(name, reps, dur, idx) ==
    [ID |-> 0, ExerciseName |-> name, Sets |-> 3, Reps |-> reps,
     DurationSeconds |-> dur, OrderIndex |-> idx]

Workout(id, uid, title, es) ==
    [ID |-> id, UserID |-> uid, Title |-> title, Entries |-> es]

SeqsUpTo(S, n) == UNION {[1..k -> S] : k \in 0..n}

EntryInputs == {WorkoutEntry("Squat", ptrInt(8), nilInt, i) : i \in 1..MaxOrderIndex}

\* The workouts of TestCreateWorkout: two entries of the same order_index;
\* an entry with neither reps nor duration_seconds; an entry with both.
TestWorkouts ==
    {Workout(0, 1, "Morning Routine",
             <<WorkoutEntry("Push-ups", ptrInt(15), nilInt, 1),
               WorkoutEntry("Bench press", ptrInt(10), nilInt, 1)>>),
     Workout(0, 1, "Evening Routine",
             <<WorkoutEntry("Squats", nilInt, nilInt, 1)>>),
     Workout(0, 1, "Afternoon Routine",
             <<WorkoutEntry("Jumping Jacks", ptrInt(20), ptrInt(300), 1)>>)}

WorkoutInputs ==
    {Workout(0, 1, "Legs", es) : es \in SeqsUpTo(EntryInputs, MaxEntries)}
    \cup TestWorkouts

(***************************************************************************)
(* The rows a statement of the transaction sees: its own writes on top of  *)
(* the committed rows.  Other sessions see the committed rows only.        *)
(***************************************************************************)
IdleTx == [pc |-> "idle", workout |-> NULL, i |-> 0, w |-> {}, e |-> {}]

NoCreateRet == [workout |-> NULL, err |-> NoError, id |-> 0, at |-> "none"]

IdleRd == [pc |-> "idle", id |-> 0, workout |-> NULL]

NoGetRet == [id |-> 0, workout |-> NULL, err |-> NoError, rowsErr |-> NoError,
             called |-> FALSE]

(***************************************************************************)
(* CreateWorkout, statement by statement.                                  *)
(***************************************************************************)

\* tx.Rollback(), deferred: the rows the transaction wrote are discarded and
\* the table keeps its committed rows.
RollbackLeavesRows(committed, written) == committed \cup written

Rollback(committed, written) == committed

\* tx.Commit() with a nil error: the written rows join the committed rows.
Commit(committed, written) == committed \cup written

\* `return nil, err` with the deferred Rollback.
CreateWorkoutFails(id, at) ==
    /\ workouts' = Rollback(workouts, tx.w)
    /\ workout_entries' = Rollback(workout_entries, tx.e)
    /\ tx' = IdleTx
    /\ createRet' = [workout |-> NULL, err |-> DriverError, id |-> id,
                     at |-> at]

\* pg.db.Begin(); on error the call returns before anything is written.
CreateWorkoutBegin ==
    /\ tx.pc = "idle"
    /\ workouts_id_seq < MaxWorkouts
    /\ \E w \in WorkoutInputs, ok \in BOOLEAN :
        IF ok
        THEN /\ tx' = [IdleTx EXCEPT !.pc = "workout", !.workout = w]
             /\ UNCHANGED createRet
        ELSE /\ tx' = IdleTx
             /\ createRet' = [workout |-> NULL, err |-> DriverError, id |-> 0,
                              at |-> "begin"]
    /\ UNCHANGED <<workouts, workout_entries, workouts_id_seq, entries_id_seq,
                   rd, getRet, users, tokens, now, pw, authRet, http, main>>

\* INSERT INTO workouts ... RETURNING id, scanned into workout.ID.
CreateWorkoutInsertWorkout ==
    /\ tx.pc = "workout"
    /\ \E ok \in BOOLEAN :
        IF ok
        THEN LET id == workouts_id_seq + 1
                 row == [id |-> id, user_id |-> tx.workout.UserID,
                         title |-> tx.workout.Title]
             IN /\ workouts_id_seq' = id
                /\ tx' = [tx EXCEPT !.pc = "entries", !.i = 1,
                                    !.workout.ID = id, !.w = {row}]
                /\ UNCHANGED <<workouts, workout_entries, createRet>>
        ELSE /\ CreateWorkoutFails(0, "workout")
             /\ UNCHANGED workouts_id_seq
    /\ UNCHANGED <<entries_id_seq, rd, getRet, users, tokens, now, pw, authRet, http, main>>

\* What the workout_entries table accepts of reps and duration_seconds: the
\* write path enforces nothing about them.
workout_entries_accepts(row) == TRUE

\* One turn of `for _, entry := range workout.Entries`: the INSERT INTO
\* workout_entries ... RETURNING id is scanned into the loop variable entry,
\* a copy of workout.Entries[i], so the slice element keeps its ID.
CreateWorkoutInsertEntry ==
    /\ tx.pc = "entries"
    /\ tx.i <= Len(tx.workout.Entries)
    /\ \E ok \in BOOLEAN :
        IF ok /\ workout_entries_accepts(tx.workout.Entries[tx.i])
        THEN LET entry == tx.workout.Entries[tx.i]
                 id == entries_id_seq + 1
                 row == [id |-> id, workout_id |-> tx.workout.ID,
                         exercise_name |-> entry.ExerciseName, sets |-> entry.Sets,
                         reps |-> entry.Reps,
                         duration_seconds |-> entry.DurationSeconds,
                         order_index |-> entry.OrderIndex]
             IN /\ entries_id_seq' = id
                /\ tx' = [tx EXCEPT !.i = tx.i + 1, !.e = tx.e \cup {row}]
                /\ UNCHANGED <<workouts, workout_entries, createRet>>
        ELSE /\ CreateWorkoutFails(tx.workout.ID, "entry")
             /\ UNCHANGED entries_id_seq
    /\ UNCHANGED <<workouts_id_seq, rd, getRet, users, tokens, now, pw, authRet, http, main>>

\* tx.Commit(): the workout row and its entry rows become visible together,
\* or, when the commit fails, not at all.
CreateWorkoutCommit ==
    /\ tx.pc = "entries"
    /\ tx.i > Len(tx.workout.Entries)
    /\ \E ok \in BOOLEAN :
        IF ok
        THEN /\ workouts' = Commit(workouts, tx.w)
             /\ workout_entries' = Commit(workout_entries, tx.e)
             /\ tx' = IdleTx
             /\ createRet' = [workout |-> tx.workout, err |-> NoError,
                              id |-> tx.workout.ID, at |-> "none"]
        ELSE CreateWorkoutFails(tx.workout.ID, "commit")
    /\ UNCHANGED <<workouts_id_seq, entries_id_seq,
                   rd, getRet, users, tokens, now, pw, authRet, http, main>>

(***************************************************************************)
(* GetWorkoutByID: two queries on pg.db, outside any transaction, so each  *)
(* sees the rows committed at the moment it runs.                          *)
(***************************************************************************)
Perms(S) ==
    {s \in [1..Cardinality(S) -> S] : \A i, j \in DOMAIN s : i # j => s[i] # s[j]}

\* ORDER BY id: the primary-key order.
OrderByID(rows) ==
    {s \in Perms(rows) : \A i, j \in DOMAIN s : i < j => s[i].id < s[j].id}

\* ORDER BY order_index ASC: every order of the rows in which order_index
\* never decreases; rows with equal order_index come in any order.
OrderByOrderIndexAsc(rows) ==
    {s \in Perms(rows) :
        \A i, j \in DOMAIN s : i < j => s[i].order_index <= s[j].order_index}

\* SELECT ... FROM workout_entries WHERE workout_id = $1 ORDER BY order_index ASC
entriesQuery(id) ==
    OrderByOrderIndexAsc({r \in workout_entries : r.workout_id = id})

\* rows.Scan into a WorkoutEntry.
ScanEntry(r) ==
    [ID |-> r.id, ExerciseName |-> r.exercise_name, Sets |-> r.sets,
     Reps |-> r.reps, DurationSeconds |-> r.duration_seconds,
     OrderIndex |-> r.order_index]

\* db.QueryRow(...).Scan(...) over the rows a query selects: a driver error,
\* sql.ErrNoRows when it selects none, else its first row scanned.
QueryRow(rows) ==
    {[row |-> NULL, err |-> DriverError]}
    \cup (IF rows = {}
          THEN {[row |-> NULL, err |-> ErrNoRows]}
          ELSE {[row |-> r, err |-> NoError] : r \in rows})

\* The first query of GetWorkoutByID and the `if err != nil` after it:
\* (nil, nil) on sql.ErrNoRows, (nil, err) on another error.
GetWorkoutByIDRow(id) ==
    {[workout |-> IF q.err = NoError
                  THEN Workout(q.row.id, q.row.user_id, q.row.title, <<>>)
                  ELSE NULL,
      err |-> IF q.err = ErrNoRows THEN NoError ELSE q.err,
      rowsErr |-> NoError,
      done |-> q.err # NoError] : q \in QueryRow({r \in workouts : r.id = id})}

\* pg.db.Query(entriesQuery, id) and the `for rows.Next()` loop.  The query
\* can fail; a Scan can fail at any row; and rows.Next() can return false
\* before the last row because the iteration failed, which only rows.Err()
\* would tell and the function does not call.
GetWorkoutByIDRows(workout, id) ==
    UNION {
        {[workout |-> NULL, err |-> DriverError, rowsErr |-> NoError]}
        \cup {[workout |-> [workout EXCEPT
                              !.Entries = [i \in 1..n |-> ScanEntry(rows[i])]],
               err |-> NoError,
               rowsErr |-> IF n < Len(rows) THEN DriverError ELSE NoError] :
                  n \in 0..Len(rows)} : rows \in entriesQuery(id)}

\* GetWorkoutByID run without another statement in between.
GetWorkoutByIDResults(id) ==
    UNION {IF q.done
           THEN {[workout |-> q.workout, err |-> q.err, rowsErr |-> q.rowsErr]}
           ELSE GetWorkoutByIDRows(q.workout, id) : q \in GetWorkoutByIDRow(id)}

\* A GetWorkoutByID call up to its first query.
GetWorkoutByIDQueryRow ==
    /\ rd.pc = "idle"
    /\ \E id \in 1..MaxWorkouts : \E q \in GetWorkoutByIDRow(id) :
        IF q.done
        THEN /\ rd' = IdleRd
             /\ getRet' = [id |-> id, workout |-> q.workout, err |-> q.err,
                           rowsErr |-> q.rowsErr, called |-> TRUE]
        ELSE /\ rd' = [pc |-> "entries", id |-> id, workout |-> q.workout]
             /\ UNCHANGED getRet
    /\ UNCHANGED <<workouts, workout_entries, workouts_id_seq, entries_id_seq,
                   tx, createRet, users, tokens, now, pw, authRet, http, main>>

\* The rest of the call: the entries query, the loop and the return.
GetWorkoutByIDEntries ==
    /\ rd.pc = "entries"
    /\ \E r \in GetWorkoutByIDRows(rd.workout, rd.id) :
        getRet' = [id |-> rd.id, workout |-> r.workout, err |-> r.err,
                   rowsErr |-> r.rowsErr, called |-> TRUE]
    /\ rd' = IdleRd
    /\ UNCHANGED <<workouts, workout_entries, workouts_id_seq, entries_id_seq,
                   tx, createRet, users, tokens, now, pw, authRet, http, main>>

(***************************************************************************)
(* The password record, the users table and the tokens table.              *)
(*   pw        the password struct of the User value in hand               *)
(*   users     the rows of the users table                                 *)
(*   tokens    the rows of the tokens table                                *)
(*   now       the clock, read by time.Now()                               *)
(*   authRet   what the last call on them returned                         *)
(***************************************************************************)
Plaintexts == {"hunter2", "letmein"}

Usernames == {"alice", "bob"}

TokenPlaintexts == {"TOKENA", "TOKENB"}

ScopeAuth == "authentication"

Scopes == {ScopeAuth, "password-reset"}

\* bcrypt.GenerateFromPassword(plainText, cost): a hash that carries the cost
\* and answers comparisons for that plaintext alone.
GenerateFromPassword(plainText, cost) == <<[bcrypt |-> cost, of |-> plainText]>>

\* bcrypt.CompareHashAndPassword: a hash too short to be one (the empty hash
\* of a password never set) is an error of its own, a hash of another
\* plaintext is ErrMismatchedHashAndPassword, the right plaintext is nil.
CompareHashAndPassword(hash, plainText) ==
    IF hash = <<>> THEN "ErrHashTooShort"
    ELSE IF hash[1].of = plainText THEN NoError
    ELSE "ErrMismatchedHashAndPassword"

\* password.Set: hash at cost 12, keep the plaintext pointer and the hash.
PasswordSet ==
    /\ \E plainText \in Plaintexts, ok \in BOOLEAN :
        IF ok
        THEN /\ pw' = [plainText |-> <<plainText>>,
                       hash |-> GenerateFromPassword(plainText, 12)]
             /\ authRet' = [op |-> "Set", err |-> NoError]
        ELSE /\ pw' = pw
             /\ authRet' = [op |-> "Set", err |-> "bcrypt error"]
    /\ UNCHANGED <<workouts, workout_entries, workouts_id_seq, entries_id_seq,
                   tx, createRet, rd, getRet, users, tokens, now, http, main>>

\* The (bool, error) pair password.Matches returns: only an err equal to
\* ErrMismatchedHashAndPassword leads to a return inside the `if err != nil`
\* block; nil and every other error reach the final `return true, nil`.
Matches(hash, plainText) ==
    LET err == CompareHashAndPassword(hash, plainText) IN
    IF err # NoError /\ err = "ErrMismatchedHashAndPassword"
    THEN <<FALSE, NoError>>
    ELSE <<TRUE, NoError>>

PasswordMatches ==
    /\ \E plainText \in Plaintexts :
        LET r == Matches(pw.hash, plainText) IN
        authRet' = [op |-> "Matches", candidate |-> plainText,
                    ok |-> r[1], err |-> r[2]]
    /\ UNCHANGED <<workouts, workout_entries, workouts_id_seq, entries_id_seq,
                   tx, createRet, rd, getRet, users, tokens, now, pw, http, main>>

\* PostgresUserStore.CreateUser: INSERT INTO users ... RETURNING id, with
\* user.PasswordHash.hash as password_hash, whether or not Set was called.
\* username is unique in the table.
CreateUser ==
    /\ Cardinality(users) < MaxUsers
    /\ \E username \in Usernames, ok \in BOOLEAN :
        IF ok /\ \A u \in users : u.username # username
        THEN LET id == Cardinality(users) + 1 IN
             /\ users' = users \cup {[id |-> id, username |-> username,
                                      password_hash |-> pw.hash]}
             /\ authRet' = [op |-> "CreateUser", id |-> id, err |-> NoError]
        ELSE /\ users' = users
             /\ authRet' = [op |-> "CreateUser", id |-> 0, err |-> DriverError]
    /\ UNCHANGED <<workouts, workout_entries, workouts_id_seq, entries_id_seq,
                   tx, createRet, rd, getRet, tokens, now, pw, http, main>>

\* The *User a query scans a users row into.
ScanUser(u) == [addr |-> "heap", ID |-> u.id, Username |-> u.username,
                PasswordHash |-> [plainText |-> <<>>, hash |-> u.password_hash]]

\* var AnonymousUser = &User{}: the zero User at an address of its own.
AnonymousUser == [addr |-> "store.AnonymousUser", ID |-> 0, Username |-> "",
                  PasswordHash |-> EmptyPassword]

\* u == AnonymousUser, a comparison of pointers.
IsAnonymous(u) == u.addr = AnonymousUser.addr

\* PostgresUserStore.GetUserByUsername: (nil, nil) on sql.ErrNoRows,
\* (nil, err) on any other error, else the user with the stored hash.
GetUserByUsernameResults(username) ==
    {[user |-> IF q.err = NoError THEN ScanUser(q.row) ELSE NULL,
      err |-> IF q.err = ErrNoRows THEN NoError ELSE q.err] :
        q \in QueryRow({u \in users : u.username = username})}

GetUserByUsername ==
    /\ \E username \in Usernames : \E r \in GetUserByUsernameResults(username) :
        /\ authRet' = [op |-> "GetUserByUsername", username |-> username,
                       user |-> r.user, err |-> r.err]
        /\ pw' = IF r.user = NULL THEN pw ELSE r.user.PasswordHash
    /\ UNCHANGED <<workouts, workout_entries, workouts_id_seq, entries_id_seq,
                   tx, createRet, rd, getRet, users, tokens, now, http, main>>

\* sha256.Sum256: the digest of a plaintext, a value of another kind than
\* the plaintext, different for different plaintexts.
Sum256(plaintext) == [sha256 |-> plaintext]

\* CreateNewToken(userID, ttl, scope): a fresh random plaintext whose digest
\* is stored with the user id, the scope and the expiry now + ttl.
CreateNewToken ==
    /\ \E plaintext \in TokenPlaintexts, u \in users, ttl \in 0..MaxTTL,
          scope \in Scopes, ok \in BOOLEAN :
        /\ \A t \in tokens : t.hash # Sum256(plaintext)
        /\ IF ok
           THEN /\ tokens' = tokens \cup {[hash |-> Sum256(plaintext),
                                           user_id |-> u.id, scope |-> scope,
                                           expiry |-> now + ttl]}
                /\ authRet' = [op |-> "CreateNewToken", plaintext |-> plaintext,
                               err |-> NoError]
           ELSE /\ tokens' = tokens
                /\ authRet' = [op |-> "CreateNewToken", plaintext |-> NULL,
                               err |-> DriverError]
    /\ UNCHANGED <<workouts, workout_entries, workouts_id_seq, entries_id_seq,
                   tx, createRet, rd, getRet, users, now, pw, http, main>>

\* The clock moves on.
Tick ==
    /\ now < MaxTime
    /\ now' = now + 1
    /\ UNCHANGED <<workouts, workout_entries, workouts_id_seq, entries_id_seq,
                   tx, createRet, rd, getRet, users, tokens, pw, authRet, http, main>>

\* ... WHERE t.hash = $1 AND t.scope = $2 AND t.expiry >= $3
TokenQueryNotStrict(hash, scope, time) ==
    {u \in users : \E t \in tokens :
        t.user_id = u.id /\ t.hash = hash /\ t.scope = scope /\ t.expiry >= time}

\* SELECT u.* FROM users u INNER JOIN tokens t ON t.user_id = u.id
\* WHERE t.hash = $1 AND t.scope = $2 AND t.expiry > $3
TokenQuery(hash, scope, time) ==
    {u \in users : \E t \in tokens :
        t.user_id = u.id /\ t.hash = hash /\ t.scope = scope /\ t.expiry > time}

\* PostgresUserStore.GetUserToken at the given time.Now(): (nil, nil) on
\* sql.ErrNoRows, (nil, err) on another error, else the joined user.
GetUserTokenResults(scope, plaintextPassword, time) ==
    LET tokenHash == Sum256(plaintextPassword) IN
    {[user |-> IF q.err = NoError THEN ScanUser(q.row) ELSE NULL,
      err |-> IF q.err = ErrNoRows THEN NoError ELSE q.err] :
        q \in QueryRow(TokenQuery(tokenHash, scope, time))}

GetUserToken ==
    /\ \E scope \in Scopes, plaintext \in TokenPlaintexts :
        \E r \in GetUserTokenResults(scope, plaintext, now) :
            authRet' = [op |-> "GetUserToken", scope |-> scope,
                        plaintext |-> plaintext, time |-> now,
                        user |-> r.user, err |-> r.err]
    /\ UNCHANGED <<workouts, workout_entries, workouts_id_seq, entries_id_seq,
                   tx, createRet, rd, getRet, users, tokens, now, pw, http, main>>

(***************************************************************************)
(* HTTP.  A request is a record: method and path as the router sees them,  *)
(* the {id} URL parameter, the Authorization header, the body, and ctx,    *)
(* the value under userContextKey in its context (<<>> when there is none).*)
(* http is the last request served and what was answered.                  *)
(***************************************************************************)
SP == " "

HeaderAlphabet == {SP, "Bearer", "Basic", "TOKENA"}

\* The values of the Authorization header: strings made of the pieces of
\* HeaderAlphabet; <<>> is the empty string r.Header.Get returns when the
\* header is absent.
Headers == SeqsUpTo(HeaderAlphabet, MaxHeaderLen)

\* strings.Split(s, " "): the substrings between the spaces, an empty one
\* between two adjacent spaces and at either end.
RECURSIVE Split(_)
Split(s) ==
    IF s = <<>> THEN << <<>> >>
    ELSE LET rest == Split(Tail(s)) IN
         IF Head(s) = SP
         THEN << <<>> >> \o rest
         ELSE << <<Head(s)>> \o rest[1] >> \o Tail(rest)

\* SetUser whose returned request is dropped: the caller goes on with r.
SetUserDropped(r, user) == r

\* SetUser: the request with user under userContextKey.
SetUser(r, user) == [r EXCEPT !.ctx = <<user>>]

\* The anonymous user in place of a missing value.
GetUserOrAnonymous(r) ==
    IF r.ctx = <<>>
    THEN [user |-> AnonymousUser, panic |-> ""]
    ELSE [user |-> r.ctx[1], panic |-> ""]

\* GetUser: the value under userContextKey, or a panic when there is none.
GetUser(r) ==
    IF r.ctx = <<>>
    THEN [user |-> NULL, panic |-> "missing user in request"]
    ELSE [user |-> r.ctx[1], panic |-> ""]

\* utils.ReadIDParam: the {id} parameter parsed as a decimal integer.
Decimal == ("1" :> 1) @@ ("2" :> 2) @@ ("3" :> 3)

\* The {id} of requests: the id of the first workout, an id no workout has,
\* and text that is not a number.
IDParams == {"1", "abc"} \cup {s \in DOMAIN Decimal : Decimal[s] = MaxWorkouts + 1}

ReadIDParam(r) ==
    IF r.id \in DOMAIN Decimal
    THEN [id |-> Decimal[r.id], err |-> NoError]
    ELSE [id |-> 0, err |-> "invalid id parameter"]

\* Request bodies.  "{" stands for any text that is not JSON.
Malformed == [malformed |-> TRUE]

PostBodies ==
    {Malformed}
    \cup {Workout(0, u, "Legs", <<WorkoutEntry("Squat", ptrInt(8), nilInt, 1)>>) :
            u \in {0, 2}}

\* updateWorkoutRequest: every field a pointer, nil when the body has no
\* such key.
PatchBodies ==
    {Malformed,
     [Title |-> <<>>, Entries |-> <<>>],
     [Title |-> <<"Arms">>, Entries |-> <<>>],
     [Title |-> <<"Arms">>,
      Entries |-> << <<[WorkoutEntry("Squat", ptrInt(8), nilInt, 2)
                          EXCEPT !.ID = 1]>> >>]}

NoBody == [none |-> TRUE]

\* Response bodies: the line http.Error writes, the envelopes
\* utils.WriteJSON writes, and nothing.
TextBody(msg) == [text |-> msg]

ErrorBody(msg) == [error |-> msg]

WorkoutBody(workout) == [workout |-> workout]

EmptyBody == [empty |-> TRUE]

\* The store calls a handler made, in order, each with the error it
\* returned: a handler goes on to the next call only after a nil error.
Calls(names, err) ==
    [i \in 1..Len(names) |->
        [fn |-> names[i], err |-> IF i = Len(names) THEN err ELSE NoError]]

\* What a handler leaves behind: the response (status 0: none was written
\* because the handler panicked), the store calls it made, in order, and
\* the tables.
Answer(status, body, calls) ==
    [status |-> status, body |-> body, calls |-> calls, panic |-> "",
     workouts |-> workouts, workout_entries |-> workout_entries,
     workouts_id_seq |-> workouts_id_seq, entries_id_seq |-> entries_id_seq]

Panic(msg, calls) == [Answer(0, EmptyBody, calls) EXCEPT !.panic = msg]

NilDereference == "invalid memory address or nil pointer dereference"

(***************************************************************************)
(* The store calls of the handlers, each run without another statement in  *)
(* between.                                                                *)
(***************************************************************************)
WorkoutRow(workout, id) ==
    [id |-> id, user_id |-> workout.UserID, title |-> workout.Title]

EntryRow(entry, id, workout_id) ==
    [id |-> id, workout_id |-> workout_id,
     exercise_name |-> entry.ExerciseName, sets |-> entry.Sets,
     reps |-> entry.Reps, duration_seconds |-> entry.DurationSeconds,
     order_index |-> entry.OrderIndex]

StoreResult(value, err, w, e, wseq, eseq) ==
    [value |-> value, err |-> err, workouts |-> w, workout_entries |-> e,
     workouts_id_seq |-> wseq, entries_id_seq |-> eseq]

\* CreateWorkout: Begin or the workout insert fails and nothing was written;
\* or the workout row got the next id and the n-th entry insert, or the
\* commit after all of them, fails and Rollback discards the rows; or the
\* commit makes them visible and workout, with its ID set, is returned.
CreateWorkoutResults(workout) ==
    LET id == workouts_id_seq + 1
        n == Len(workout.Entries)
        w == {WorkoutRow(workout, id)}
        e(k) == {EntryRow(workout.Entries[i], entries_id_seq + i, id) : i \in 1..k}
    IN {StoreResult(NULL, DriverError, workouts, workout_entries,
                    workouts_id_seq, entries_id_seq)}
       \cup {StoreResult(NULL, DriverError, Rollback(workouts, w),
                         Rollback(workout_entries, e(k)), id, entries_id_seq + k) :
                k \in 0..n}
       \cup {StoreResult([workout EXCEPT !.ID = id], NoError, Commit(workouts, w),
                         Commit(workout_entries, e(n)), id, entries_id_seq + n)}

\* GetWorkoutOwner(id): the user_id of the workout row; no row is an error.
GetWorkoutOwnerResults(id) ==
    {[owner |-> IF q.err = NoError THEN q.row.user_id ELSE 0, err |-> q.err] :
        q \in QueryRow({r \in workouts : r.id = id})}

\* UpdateWorkout(workout): in one transaction, the workout row of that id
\* (none affected: sql.ErrNoRows), then each entry row with the id of an
\* entry of the workout; an entry without a row changes nothing.
UpdateWorkoutResults(workout) ==
    LET rows == {r \in workouts : r.id = workout.ID}
        last(r) == CHOOSE i \in DOMAIN workout.Entries :
                      /\ workout.Entries[i].ID = r.id
                      /\ \A j \in DOMAIN workout.Entries :
                            workout.Entries[j].ID = r.id => j <= i
        updated(r) ==
            IF /\ r.workout_id = workout.ID
               /\ \E i \in DOMAIN workout.Entries : workout.Entries[i].ID = r.id
            THEN EntryRow(workout.Entries[last(r)], r.id, r.workout_id)
            ELSE r
    IN {StoreResult(NULL, DriverError, workouts, workout_entries,
                    workouts_id_seq, entries_id_seq)}
       \cup (IF rows = {}
             THEN {StoreResult(NULL, ErrNoRows, workouts, workout_entries,
                               workouts_id_seq, entries_id_seq)}
             ELSE {StoreResult(NULL, NoError,
                       (workouts \ rows) \cup {[r EXCEPT !.title = workout.Title] : r \in rows},
                       {updated(r) : r \in workout_entries},
                       workouts_id_seq, entries_id_seq)})

\* DeleteWorkout(id): the workout row goes and its entry rows with it.
DeleteWorkoutResults(id) ==
    LET rows == {r \in workouts : r.id = id} IN
    {StoreResult(NULL, DriverError, workouts, workout_entries,
                 workouts_id_seq, entries_id_seq)}
    \cup (IF rows = {}
          THEN {StoreResult(NULL, ErrNoRows, workouts, workout_entries,
                            workouts_id_seq, entries_id_seq)}
          ELSE {StoreResult(NULL, NoError, workouts \ rows,
                            {r \in workout_entries : r.workout_id # id},
                            workouts_id_seq, entries_id_seq)})

\* The answer with the tables a store call left.
After(answer, c) ==
    [answer EXCEPT !.workouts = c.workouts, !.workout_entries = c.workout_entries,
                   !.workouts_id_seq = c.workouts_id_seq,
                   !.entries_id_seq = c.entries_id_seq]

(***************************************************************************)
(* The workout handlers.                                                   *)
(***************************************************************************)
HealthCheck(r) == {Answer(200, TextBody("Status is available"), <<>>)}

\* The workout as decoded from the body, its user_id kept.
KeepBodyUserID(workout, currentUser) == workout

\* workout.UserID = currentUser.ID
AssociateUser(workout, currentUser) == [workout EXCEPT !.UserID = currentUser.ID]

HandleCreateWorkout(r) ==
    IF r.body = Malformed
    THEN {Answer(500, TextBody("Invalid request payload"), <<>>)}
    ELSE LET currentUser == GetUser(r) IN
    IF currentUser.panic # ""
    THEN {Panic(currentUser.panic, <<>>)}
    ELSE IF IsAnonymous(currentUser.user)
    THEN {Answer(401, TextBody("Authentication required to create workout"), <<>>)}
    ELSE LET workout == AssociateUser(r.body, currentUser.user) IN
         {IF c.err # NoError
          THEN After(Answer(500, TextBody("Failed to create workout"),
                            Calls(<<"CreateWorkout">>, c.err)), c)
          ELSE After(Answer(201, WorkoutBody(c.value),
                            Calls(<<"CreateWorkout">>, NoError)), c) :
             c \in CreateWorkoutResults(workout)}

HandleGetWorkoutByID(r) ==
    LET p == ReadIDParam(r) IN
    IF p.err # NoError
    THEN {Answer(500, ErrorBody("Invalid workout ID"), <<>>)}
    ELSE {IF g.err # NoError
          THEN Answer(404, ErrorBody("Workout not found"),
                      Calls(<<"GetWorkoutByID">>, g.err))
          ELSE Answer(200, WorkoutBody(g.workout),
                      Calls(<<"GetWorkoutByID">>, NoError)) :
             g \in GetWorkoutByIDResults(p.id)}

\* workoutOwner != workout.UserID, after workout.UserID = currentUser.ID
NotOwnerOfItself(workoutOwner, currentUser) == currentUser.ID # currentUser.ID

\* workoutOwner != currentUser.ID
NotOwner(workoutOwner, currentUser) == workoutOwner # currentUser.ID

\* The part of HandleUpdateWorkout after the fields of the body were copied
\* into workout: the user, the owner, the update.
UpdateAsUser(r, id, workout) ==
    LET currentUser == GetUser(r) IN
    IF currentUser.panic # ""
    THEN {Panic(currentUser.panic, Calls(<<"GetWorkoutByID">>, NoError))}
    ELSE IF IsAnonymous(currentUser.user)
    THEN {Answer(401, TextBody("Authentication required to update workout"),
                 Calls(<<"GetWorkoutByID">>, NoError))}
    ELSE IF workout = NULL
    THEN {Panic(NilDereference, Calls(<<"GetWorkoutByID">>, NoError))}
    ELSE LET w == [workout EXCEPT !.UserID = currentUser.user.ID] IN
    UNION {
        IF o.err # NoError
        THEN {Answer(500, ErrorBody("Failed to retrieve workout owner"),
                     Calls(<<"GetWorkoutByID", "GetWorkoutOwner">>, o.err))}
        ELSE IF NotOwner(o.owner, currentUser.user)
        THEN {Answer(403, TextBody("You do not have permission to update this workout"),
                     Calls(<<"GetWorkoutByID", "GetWorkoutOwner">>, NoError))}
        ELSE {IF u.err # NoError
              THEN After(Answer(500, ErrorBody("Failed to update workout"),
                         Calls(<<"GetWorkoutByID", "GetWorkoutOwner", "UpdateWorkout">>,
                               u.err)), u)
              ELSE After(Answer(200, WorkoutBody(w),
                         Calls(<<"GetWorkoutByID", "GetWorkoutOwner", "UpdateWorkout">>,
                               NoError)), u) :
                 u \in UpdateWorkoutResults(w)} :
        o \in GetWorkoutOwnerResults(id)}

HandleUpdateWorkout(r) ==
    LET p == ReadIDParam(r) IN
    IF p.err # NoError
    THEN {Answer(400, ErrorBody("Workout ID is required"), <<>>)}
    ELSE UNION {
        IF g.err # NoError
        THEN {Answer(404, ErrorBody("Workout not found"),
                     Calls(<<"GetWorkoutByID">>, g.err))}
        ELSE IF r.body = Malformed
        THEN {Answer(400, TextBody("malformed body"),
                     Calls(<<"GetWorkoutByID">>, NoError))}
        ELSE IF g.workout = NULL /\ (r.body.Title # <<>> \/ r.body.Entries # <<>>)
        THEN {Panic(NilDereference, Calls(<<"GetWorkoutByID">>, NoError))}
        ELSE LET workout ==
                    IF g.workout = NULL THEN NULL
                    ELSE [g.workout EXCEPT
                            !.Title = IF r.body.Title # <<>>
                                      THEN r.body.Title[1] ELSE @,
                            !.Entries = IF r.body.Entries # <<>>
                                        THEN r.body.Entries[1] ELSE @]
             IN UpdateAsUser(r, p.id, workout) :
        g \in GetWorkoutByIDResults(p.id)}

\* The part of HandleDeleteWorkout after the owner check: the second
\* GetWorkoutByID and the delete.
DeleteAsOwner(id) ==
    UNION {
        IF g2.err # NoError
        THEN {Answer(500, ErrorBody("Failed to retrieve workout"),
                     Calls(<<"GetWorkoutByID", "GetWorkoutOwner", "GetWorkoutByID">>,
                           g2.err))}
        ELSE {IF d.err # NoError
              THEN After(Answer(500, ErrorBody("Failed to delete workout"),
                         Calls(<<"GetWorkoutByID", "GetWorkoutOwner",
                                 "GetWorkoutByID", "DeleteWorkout">>, d.err)), d)
              ELSE After(Answer(200, EmptyBody,
                         Calls(<<"GetWorkoutByID", "GetWorkoutOwner",
                                 "GetWorkoutByID", "DeleteWorkout">>, NoError)), d) :
                 d \in DeleteWorkoutResults(id)} :
        g2 \in GetWorkoutByIDResults(id)}

HandleDeleteWorkout(r) ==
    LET p == ReadIDParam(r) IN
    IF p.err # NoError
    THEN {Answer(400, ErrorBody("Invalid workout ID"), <<>>)}
    ELSE UNION {
        IF g.err # NoError
        THEN {Answer(404, ErrorBody("Workout not found"),
                     Calls(<<"GetWorkoutByID">>, g.err))}
        ELSE LET currentUser == GetUser(r) IN
        IF currentUser.panic # ""
        THEN {Panic(currentUser.panic, Calls(<<"GetWorkoutByID">>, NoError))}
        ELSE IF IsAnonymous(currentUser.user)
        THEN {Answer(401, TextBody("Authentication required to delete workout"),
                     Calls(<<"GetWorkoutByID">>, NoError))}
        ELSE UNION {
            IF o.err # NoError
            THEN {Answer(500, ErrorBody("Failed to retrieve workout owner"),
                         Calls(<<"GetWorkoutByID", "GetWorkoutOwner">>, o.err))}
            ELSE IF NotOwner(o.owner, currentUser.user)
            THEN {Answer(403, ErrorBody("You do not have permission to delete this workout"),
                         Calls(<<"GetWorkoutByID", "GetWorkoutOwner">>, NoError))}
            ELSE DeleteAsOwner(p.id) :
            o \in GetWorkoutOwnerResults(p.id)} :
        g \in GetWorkoutByIDResults(p.id)}

Handlers == {"HealthCheck", "HandleGetWorkoutByID", "HandleCreateWorkout",
             "HandleUpdateWorkout", "HandleDeleteWorkout"}

\* handler.ServeHTTP(w, r)
ServeHTTP(handler, r) ==
    CASE handler = "HealthCheck" -> HealthCheck(r)
      [] handler = "HandleGetWorkoutByID" -> HandleGetWorkoutByID(r)
      [] handler = "HandleCreateWorkout" -> HandleCreateWorkout(r)
      [] handler = "HandleUpdateWorkout" -> HandleUpdateWorkout(r)
      [] handler = "HandleDeleteWorkout" -> HandleDeleteWorkout(r)
      [] OTHER -> {Answer(405, TextBody("Method Not Allowed"), <<>>)}

(***************************************************************************)
(* The identity middleware and the route table.                            *)
(***************************************************************************)
\* A response header map nothing was added to.
NoHeaders == {}

VaryAuthorization == {<<"Vary", "Authorization">>}

\* len(headerParts) != 2 && headerParts[0] != "Bearer"
InvalidFormatBoth(headerParts) ==
    Len(headerParts) # 2 /\ headerParts[1] # <<"Bearer">>

\* len(headerParts) != 2 || headerParts[0] != "Bearer"
InvalidFormat(headerParts) ==
    Len(headerParts) # 2 \/ headerParts[1] # <<"Bearer">>

\* The function UserMiddleware.Middleware(next) returns, run on r: what it
\* and next answered, how many times next.ServeHTTP was called, and the
\* request next was called with (r itself when next was not called).  After
\* the format check the function ends: for a header of the right form
\* nothing is looked up, nothing is written and next is not called, and the
\* server answers 200 with an empty body.
Middleware(next, r) ==
    IF r.header = <<>>
    THEN LET r2 == SetUser(r, AnonymousUser) IN
         {[answer |-> a, headers |-> VaryAuthorization, next |-> 1, r |-> r2] :
            a \in ServeHTTP(next, r2)}
    ELSE LET headerParts == Split(r.header) IN
         IF InvalidFormat(headerParts)
         THEN {[answer |-> Answer(401, ErrorBody("invalid authorization header format"),
                                  <<>>),
                headers |-> VaryAuthorization, next |-> 0, r |-> r]}
         ELSE {[answer |-> Answer(200, EmptyBody, <<>>),
                headers |-> VaryAuthorization, next |-> 0, r |-> r]}

\* SetupRoutes: the handler registered for the method and path; no
\* middleware is registered (there is no r.Use) and no route for DELETE.
SetupRoutes(method, path) ==
    IF method = "GET" /\ path = "/health" THEN "HealthCheck"
    ELSE IF method = "GET" /\ path = "/workouts/{id}" THEN "HandleGetWorkoutByID"
    ELSE IF method = "POST" /\ path = "/workouts" THEN "HandleCreateWorkout"
    ELSE IF method = "PATCH" /\ path = "/workouts/{id}" THEN "HandleUpdateWorkout"
    ELSE "MethodNotAllowed"

\* Requests as they arrive: nothing under userContextKey.
Request(method, path, id, body, header) ==
    [method |-> method, path |-> path, id |-> id, body |-> body,
     header |-> header, ctx |-> <<>>]

RequestsOf(handler, header) ==
    CASE handler = "HealthCheck" ->
            {Request("GET", "/health", "", NoBody, header)}
      [] handler = "HandleGetWorkoutByID" ->
            {Request("GET", "/workouts/{id}", id, NoBody, header) : id \in IDParams}
      [] handler = "HandleCreateWorkout" ->
            {Request("POST", "/workouts", "", b, header) : b \in PostBodies}
      [] handler = "HandleUpdateWorkout" ->
            {Request("PATCH", "/workouts/{id}", id, b, header) :
                id \in IDParams, b \in PatchBodies}
      [] handler = "HandleDeleteWorkout" ->
            {Request("DELETE", "/workouts/{id}", id, NoBody, header) : id \in IDParams}
      [] OTHER -> {Request(m, "/workouts", "", NoBody, header) :
                      m \in {"GET", "PATCH", "DELETE"}}

\* The requests without an Authorization header, each with the handler it
\* is for.
Requests ==
    UNION {{<<handler, r>> : r \in RequestsOf(handler, <<>>)} : handler \in Handlers}

\* A few requests for each handler and each value of the header.
SampleRequestsOf(handler, header) ==
    {r \in RequestsOf(handler, header) :
        /\ r.id \in {"", "1"}
        /\ r.body \in {NoBody, Malformed, [Title |-> <<"Arms">>, Entries |-> <<>>]}
                       \cup {b \in PostBodies : b # Malformed /\ b.UserID = 0}}

SampleRequests ==
    UNION {{<<handler, r>> : r \in SampleRequestsOf(handler, header)} :
           handler \in Handlers, header \in Headers}

\* The users a token lookup can attach: the rows of the users table scanned.
UserRow(id) ==
    [id |-> id, username |-> IF id = 1 THEN "alice" ELSE "bob",
     password_hash |-> <<>>]

Identities == {AnonymousUser} \cup {ScanUser(UserRow(id)) : id \in UserIDs}

NoRequest == [n |-> 0, via |-> "none"]

\* The request served is recorded with its answer, and the tables are what
\* the handler left.
Served(via, handler, m) ==
    /\ m.answer.workouts_id_seq <= MaxWorkouts
    /\ http' = [n |-> 1 - http.n, via |-> via, handler |-> handler, r |-> m.r,
                status |-> m.answer.status, body |-> m.answer.body,
                headers |-> m.headers, next |-> m.next,
                calls |-> m.answer.calls, panic |-> m.answer.panic]
    /\ workouts' = m.answer.workouts
    /\ workout_entries' = m.answer.workout_entries
    /\ workouts_id_seq' = m.answer.workouts_id_seq
    /\ entries_id_seq' = m.answer.entries_id_seq
    /\ UNCHANGED <<tx, createRet, rd, getRet, users, tokens, now, pw, authRet, main>>

\* The requests that arrive at the router: those of the handlers and, for
\* the methods without a route, GET, PATCH and DELETE on /workouts.
RoutedRequests ==
    UNION {RequestsOf(handler, <<>>) : handler \in Handlers \cup {"MethodNotAllowed"}}

\* A request through the router SetupRoutes returns.
ServeRoute ==
    \E r \in RoutedRequests :
        LET handler == SetupRoutes(r.method, r.path) IN
        \E a \in ServeHTTP(handler, r) :
            Served("SetupRoutes", handler,
                   [answer |-> a, headers |-> {}, next |-> 0, r |-> r])

\* One of requests, each a handler and a request for it, through
\* Middleware(next).
ServeMiddleware(requests) ==
    \E p \in requests :
        LET next == p[1]
            r == p[2]
        IN \E m \in Middleware(next, r) :
                Served("Middleware", next, m)

\* A handler called with a request that SetUser gave an identity.
ServeWithUser ==
    \E user \in Identities, p \in Requests :
        LET handler == p[1]
            r == SetUser(p[2], user)
        IN \E a \in ServeHTTP(handler, r) :
                Served("SetUser", handler,
                       [answer |-> a, headers |-> {}, next |-> 0, r |-> r])

(***************************************************************************)
(* The token handler: POST /tokens/authentication with a createTokenRequest *)
(* body.                                                                   *)
(***************************************************************************)
TokenBodies ==
    {Malformed}
    \cup {[username |-> username, password |-> password] :
            username \in Usernames, password \in Plaintexts}

TokenRequests ==
    {Request("POST", "/tokens/authentication", "", b, <<>>) : b \in TokenBodies}

\* 24*time.Hour, on the clock of the model.
Day == MaxTTL

AuthTokenBody(plaintext) == [auth_token |-> plaintext]

\* TokenStore.CreateNewToken(userID, ttl, scope) as the handler sees it: an
\* error and no row, or a plaintext not issued before whose digest is
\* stored with the user id, the scope and the expiry now + ttl.
CreateNewTokenResults(userID, ttl, scope) ==
    {[plaintext |-> "", err |-> DriverError, tokens |-> tokens]}
    \cup {[plaintext |-> plaintext, err |-> NoError,
           tokens |-> tokens \cup {[hash |-> Sum256(plaintext), user_id |-> userID,
                                    scope |-> scope, expiry |-> now + ttl]}] :
            plaintext \in {q \in TokenPlaintexts :
                              \A t \in tokens : t.hash # Sum256(q)}}

\* Only an error of Matches refuses the credentials.
CredentialsRejectedOnError(passwordsDoMatch, err) == err # NoError

\* `if err != nil || !passwordsDoMatch`, then `if !passwordsDoMatch`: either
\* answers 401.
CredentialsRejected(passwordsDoMatch, err) ==
    (err # NoError \/ ~passwordsDoMatch) \/ ~passwordsDoMatch

\* What HandleCreateToken leaves behind: the response, the store calls, the
\* pair Matches returned (<<>> when it was not called) and the tokens table.
TokenAnswer(status, body, calls, matches, tokensAfter) ==
    [status |-> status, body |-> body, calls |-> calls, panic |-> "",
     matches |-> matches, tokens |-> tokensAfter]

HandleCreateToken(r) ==
    IF r.body = Malformed
    THEN {TokenAnswer(400, ErrorBody("Invalid request payload"), <<>>, <<>>, tokens)}
    ELSE UNION {
        IF g.err # NoError
        THEN {TokenAnswer(500, ErrorBody("Internal Server Error"),
                          Calls(<<"GetUserByUsername">>, g.err), <<>>, tokens)}
        ELSE IF g.user = NULL
        THEN {[TokenAnswer(0, EmptyBody, Calls(<<"GetUserByUsername">>, NoError),
                           <<>>, tokens) EXCEPT !.panic = NilDereference]}
        ELSE LET m == Matches(g.user.PasswordHash.hash, r.body.password) IN
             IF CredentialsRejected(m[1], m[2])
             THEN {TokenAnswer(401, ErrorBody("Invalid credentials"),
                               Calls(<<"GetUserByUsername">>, NoError), <<m>>, tokens)}
             ELSE {IF c.err # NoError
                   THEN TokenAnswer(500, ErrorBody("Internal Server Error"),
                                    Calls(<<"GetUserByUsername", "CreateNewToken">>, c.err),
                                    <<m>>, c.tokens)
                   ELSE TokenAnswer(201, AuthTokenBody(c.plaintext),
                                    Calls(<<"GetUserByUsername", "CreateNewToken">>, NoError),
                                    <<m>>, c.tokens) :
                      c \in CreateNewTokenResults(g.user.ID, Day, ScopeAuth)} :
            g \in GetUserByUsernameResults(r.body.username)}

\* The token handler called with a request; the tokens table is what it left.
ServeToken ==
    /\ \E r \in TokenRequests : \E a \in HandleCreateToken(r) :
        /\ http' = [n |-> 1 - http.n, via |-> "TokenHandler",
                    handler |-> "HandleCreateToken", r |-> r,
                    status |-> a.status, body |-> a.body, headers |-> {},
                    next |-> 0, calls |-> a.calls, panic |-> a.panic,
                    matches |-> a.matches]
        /\ tokens' = a.tokens
    /\ UNCHANGED <<workouts, workout_entries, workouts_id_seq, entries_id_seq,
                   tx, createRet, rd, getRet, users, now, pw, authRet, main>>

(***************************************************************************)
(* main(): the flags, NewApplication (store.Open, then store.MigrateFS),   *)
(* then http.HandleFunc("/health", HealthCheck) and ListenAndServe on      *)
(* the default mux.  In main: pc is the call main is at, app whether       *)
(* NewApplication has returned an Application, opened and migrated whether *)
(* the database was opened and MigrateFS returned nil, exit how the        *)
(* process ended ("" while it runs).                                       *)
(***************************************************************************)
Ports == {8080, 3000}

MainStart == [pc |-> "flag.Parse", port |-> 8080, opened |-> FALSE,
              migrated |-> FALSE, app |-> FALSE, exit |-> ""]

\* flag.IntVar(&port, "port", 8080, ...); flag.Parse()
ParseFlags ==
    /\ main.pc = "flag.Parse"
    /\ \E port \in Ports : main' = [main EXCEPT !.pc = "store.Open", !.port = port]
    /\ UNCHANGED <<workouts, workout_entries, workouts_id_seq, entries_id_seq,
                   tx, createRet, rd, getRet, users, tokens, now, pw, authRet, http>>

\* NewApplication up to store.Open: an error is returned to main, which
\* panics with it.
Open ==
    /\ main.pc = "store.Open"
    /\ \E err \in {NoError, DriverError} :
        main' = IF err # NoError
                THEN [main EXCEPT !.pc = "exit",
                                  !.exit = "panic: failed to connect to the database"]
                ELSE [main EXCEPT !.pc = "store.MigrateFS", !.opened = TRUE]
    /\ UNCHANGED <<workouts, workout_entries, workouts_id_seq, entries_id_seq,
                   tx, createRet, rd, getRet, users, tokens, now, pw, authRet, http>>

\* No error of MigrateFS stops NewApplication.
MigrationNeverFailed(err) == FALSE

\* if err != nil, after store.MigrateFS
MigrationFailed(err) == err # NoError

\* NewApplication from store.MigrateFS on: a panic on its error, else the
\* Application is returned and main goes on to start the server.
MigrateFS ==
    /\ main.pc = "store.MigrateFS"
    /\ \E err \in {NoError, DriverError} :
        main' = IF MigrationFailed(err)
                THEN [main EXCEPT !.pc = "exit", !.exit = "panic: migration failed"]
                ELSE [main EXCEPT !.pc = "ListenAndServe", !.app = TRUE,
                                  !.migrated = (err = NoError)]
    /\ UNCHANGED <<workouts, workout_entries, workouts_id_seq, entries_id_seq,
                   tx, createRet, rd, getRet, users, tokens, now, pw, authRet, http>>

\* http.DefaultServeMux with the one pattern main registers.
DefaultServeMux(path) == IF path = "/health" THEN "HealthCheck" ELSE "NotFound"

NotFound(r) == {Answer(404, TextBody("404 page not found"), <<>>)}

\* server.ListenAndServe() accepting a request and answering it.
ListenAndServe ==
    /\ main.pc = "ListenAndServe"
    /\ \E r \in RoutedRequests :
        LET handler == DefaultServeMux(r.path) IN
        \E a \in IF handler = "HealthCheck" THEN HealthCheck(r) ELSE NotFound(r) :
            Served("ListenAndServe", handler,
                   [answer |-> a, headers |-> {}, next |-> 0, r |-> r])

\* server.ListenAndServe() returns its error, which main logs before it
\* returns.
ListenAndServeReturns ==
    /\ main.pc = "ListenAndServe"
    /\ main' = [main EXCEPT !.pc = "exit", !.exit = "Application stopped"]
    /\ UNCHANGED <<workouts, workout_entries, workouts_id_seq, entries_id_seq,
                   tx, createRet, rd, getRet, users, tokens, now, pw, authRet, http>>

(***************************************************************************)
(* The program after construction: empty tables, no call in progress.      *)
(***************************************************************************)
Init ==
    /\ workouts = {}
    /\ workout_entries = {}
    /\ workouts_id_seq = 0
    /\ entries_id_seq = 0
    /\ tx = IdleTx
    /\ createRet = NoCreateRet
    /\ rd = IdleRd
    /\ getRet = NoGetRet
    /\ users = {}
    /\ tokens = {}
    /\ now = 0
    /\ pw = EmptyPassword
    /\ authRet = [op |-> "none"]
    /\ http = NoRequest
    /\ main = MainStart

(***************************************************************************)
(* The store: one CreateWorkout caller and one GetWorkoutByID caller, each *)
(* on its own connection, interleaved statement by statement.              *)
(***************************************************************************)
NextStore ==
    \/ CreateWorkoutBegin
    \/ CreateWorkoutInsertWorkout
    \/ CreateWorkoutInsertEntry
    \/ CreateWorkoutCommit
    \/ GetWorkoutByIDQueryRow
    \/ GetWorkoutByIDEntries

SpecStore == Init /\ [][NextStore]_vars

(***************************************************************************)
(* Passwords: a password record set, stored with a user, read back and     *)
(* compared, in any order.                                                 *)
(***************************************************************************)
NextPassword ==
    \/ PasswordSet
    \/ PasswordMatches
    \/ CreateUser
    \/ GetUserByUsername

SpecPassword == Init /\ [][NextPassword]_vars

(***************************************************************************)
(* Tokens: users registered, tokens issued and looked up, the clock moving *)
(* in between.                                                             *)
(***************************************************************************)
NextToken ==
    \/ CreateUser
    \/ CreateNewToken
    \/ Tick
    \/ GetUserToken

SpecToken == Init /\ [][NextToken]_vars

(***************************************************************************)
(* The process from its start: main() step by step, requests answered      *)
(* while ListenAndServe runs.                                              *)
(***************************************************************************)
NextStartup ==
    \/ ParseFlags
    \/ Open
    \/ MigrateFS
    \/ ListenAndServe
    \/ ListenAndServeReturns

SpecStartup == Init /\ [][NextStartup]_vars

(***************************************************************************)
(* Logging in: users registered with the hash of a password record, and    *)
(* POST /tokens/authentication for any username and password.              *)
(***************************************************************************)
NextLogin ==
    \/ PasswordSet
    \/ CreateUser
    \/ ServeToken

SpecLogin == Init /\ [][NextLogin]_vars

(***************************************************************************)
(* The handlers: called behind the route table, and called with an         *)
(* identity attached.                                                      *)
(***************************************************************************)
NextHttp ==
    \/ ServeRoute
    \/ ServeWithUser

SpecHttp == Init /\ [][NextHttp]_vars

(***************************************************************************)
(* The identity middleware in front of the handlers, for every value of    *)
(* the Authorization header.                                               *)
(***************************************************************************)
NextMiddleware == ServeMiddleware(SampleRequests)

SpecMiddleware == Init /\ [][NextMiddleware]_vars

(***************************************************************************)
(* The identity middleware with tokens issued: requests that carry         *)
(* "Bearer <token>".                                                       *)
(***************************************************************************)
BearerHeaders == {<<"Bearer", SP, t>> : t \in TokenPlaintexts}

BearerRequests == {p \in SampleRequests : p[2].header \in BearerHeaders}

NextBearer ==
    \/ CreateUser
    \/ CreateNewToken
    \/ Tick
    \/ ServeMiddleware(BearerRequests)

SpecBearer == Init /\ [][NextBearer]_vars

(***************************************************************************)
(* Properties of the store.                                                *)
(***************************************************************************)

\* C1: CreateWorkout is atomic.  When an entry insert or the commit fails,
\* the call returns an error and no workout, and the tables hold neither the
\* workout row of the id the call was given nor any entry row of it, so no
\* GetWorkoutByID on that id finds or returns a workout.
C1_CreateWorkoutAtomic ==
    createRet.at \in {"entry", "commit"} =>
        /\ createRet.err # NoError
        /\ createRet.workout = NULL
        /\ createRet.id >= 1
        /\ \A r \in workouts : r.id # createRet.id
        /\ \A r \in workout_entries : r.workout_id # createRet.id
        /\ rd.pc = "entries" => rd.id # createRet.id
        /\ (getRet.called /\ getRet.id = createRet.id) => getRet.workout = NULL
        /\ \A r \in GetWorkoutByIDResults(createRet.id) : r.workout = NULL

\* An entry insert failed after an earlier entry of the same workout had
\* been inserted, and GetWorkoutByID on the id returned (nil, nil).
C1_Witness ==
    /\ createRet.at = "entry"
    /\ createRet.id >= 1
    /\ entries_id_seq >= 1
    /\ getRet.called
    /\ getRet.id = createRet.id
    /\ getRet.workout = NULL
    /\ getRet.err = NoError

\* The entries a returned workout carries, as the set of their ids.
ReturnedEntryIDs(w) == {w.Entries[i].ID : i \in DOMAIN w.Entries}

\* C10: whenever GetWorkoutByID returns a workout, its Entries are all the
\* entry rows of that workout, in ascending order_index.
C10_AllEntriesAscending ==
    (getRet.called /\ getRet.workout # NULL) =>
        LET es == getRet.workout.Entries
            rows == {r \in workout_entries : r.workout_id = getRet.id}
        IN /\ \A i, j \in DOMAIN es : i < j => es[i].OrderIndex <= es[j].OrderIndex
           /\ ReturnedEntryIDs(getRet.workout) = {r.id : r \in rows}
           /\ Len(es) = Cardinality(rows)

\* CreateWorkout returned a workout and no error.
CreateWorkoutSucceeded == createRet.err = NoError /\ createRet.workout # NULL

\* C11: when CreateWorkout succeeded and GetWorkoutByID on the returned id
\* returns a workout, it has that id and as many entries as were submitted,
\* and its entry at each position has the exercise name, sets, reps,
\* duration_seconds and order_index of the submitted entry at that position.
C11_RetrievedEqualsSubmitted ==
    (/\ CreateWorkoutSucceeded
     /\ getRet.called
     /\ getRet.err = NoError
     /\ getRet.workout # NULL
     /\ getRet.id = createRet.workout.ID) =>
        LET submitted == createRet.workout.Entries
            retrieved == getRet.workout.Entries
        IN /\ getRet.workout.ID = createRet.workout.ID
           /\ Len(retrieved) = Len(submitted)
           /\ \A i \in DOMAIN retrieved \cap DOMAIN submitted :
                /\ retrieved[i].ExerciseName = submitted[i].ExerciseName
                /\ retrieved[i].Sets = submitted[i].Sets
                /\ retrieved[i].Reps = submitted[i].Reps
                /\ retrieved[i].DurationSeconds = submitted[i].DurationSeconds
                /\ retrieved[i].OrderIndex = submitted[i].OrderIndex

\* An entry or an entry row with exactly one of reps and duration_seconds.
ExactlyOneOf(reps, duration_seconds) == (reps = nilInt) # (duration_seconds = nilInt)

\* C12: CreateWorkout never succeeds with, and the table never holds a row
\* of, an entry that has both reps and duration_seconds or neither.
C12_InvalidEntryRejected ==
    /\ CreateWorkoutSucceeded =>
          \A i \in DOMAIN createRet.workout.Entries :
              ExactlyOneOf(createRet.workout.Entries[i].Reps,
                           createRet.workout.Entries[i].DurationSeconds)
    /\ \A r \in workout_entries : ExactlyOneOf(r.reps, r.duration_seconds)

\* C13: the workout CreateWorkout returns on success has the assigned id,
\* and each of its entries has the id of the entry row inserted for it.
C13_ReturnedIdsPopulated ==
    CreateWorkoutSucceeded =>
        /\ createRet.workout.ID >= 1
        /\ \A i \in DOMAIN createRet.workout.Entries :
              /\ createRet.workout.Entries[i].ID >= 1
              /\ \E r \in workout_entries :
                    /\ r.workout_id = createRet.workout.ID
                    /\ r.id = createRet.workout.Entries[i].ID

\* C24: a GetWorkoutByID call in which reading the entries failed, be it
\* the query, a Scan or the row iteration, returns an error and no workout,
\* never a workout whose entry list is empty or cut short.
C24_EntryReadFailureIsAnError ==
    (getRet.called /\ getRet.rowsErr # NoError) =>
        /\ getRet.err # NoError
        /\ getRet.workout = NULL

\* C25: however the statements of a CreateWorkout transaction and of
\* GetWorkoutByID calls interleave, a reader that found the workout row is
\* reading a committed workout, and a reader that returns a workout returns
\* it with every entry row of it, as many as were submitted: never with a
\* strict subset of them.
C25_ReaderSeesNoneOrAll ==
    /\ rd.pc = "entries" => \E w \in workouts : w.id = rd.id
    /\ (getRet.called /\ getRet.workout # NULL) =>
          /\ \A r \in workout_entries :
                r.workout_id = getRet.id => r.id \in ReturnedEntryIDs(getRet.workout)
          /\ (CreateWorkoutSucceeded /\ createRet.workout.ID = getRet.id) =>
                Len(getRet.workout.Entries) = Len(createRet.workout.Entries)

(***************************************************************************)
(* Properties of the password record and of the token lookup.              *)
(***************************************************************************)

\* C2: Matches returns true only for a candidate that is the plaintext the
\* record's hash was made of by Set; for any other candidate and for a hash
\* that cannot be verified it never returns true.
C2_MatchesOnlyTheSetPlaintext ==
    (authRet.op = "Matches" /\ authRet.ok) =>
        /\ pw.hash # <<>>
        /\ pw.hash[1].of = authRet.candidate

\* C19: once Set has succeeded the password record holds the derived hash
\* and no plaintext, in every state from then on.
C19_OnlyHashRetained == pw.hash # <<>> => pw.plainText = <<>>

\* The digest, scope and expiry test of the claim, on the tokens table.
ValidTokenRows(plaintext, scope, time) ==
    {t \in tokens : /\ t.hash = Sum256(plaintext)
                    /\ t.scope = scope
                    /\ t.expiry > time}

\* C9: GetUserToken returns a user only if a token row has the digest of the
\* presented plaintext, the same scope and an expiry strictly later than the
\* lookup time, and then it is that row's user; when the query completes it
\* returns a user if there is such a row and (nil, nil) if there is none,
\* and sql.ErrNoRows is never returned as an error.
C9_TokenValidIff ==
    authRet.op = "GetUserToken" =>
        LET valid == ValidTokenRows(authRet.plaintext, authRet.scope, authRet.time)
        IN /\ authRet.user # NULL =>
                /\ authRet.err = NoError
                /\ \E t \in valid : t.user_id = authRet.user.ID
           /\ authRet.err = NoError => (authRet.user # NULL <=> valid # {})
           /\ authRet.err # ErrNoRows
           /\ valid = {} => authRet.user = NULL

\* A token of the presented plaintext and scope whose expiry equals the
\* lookup time (issued with ttl = 0 and looked up at once) was looked up and
\* the answer was (nil, nil).
C9_Witness ==
    /\ authRet.op = "GetUserToken"
    /\ authRet.user = NULL
    /\ authRet.err = NoError
    /\ \E t \in tokens : /\ t.hash = Sum256(authRet.plaintext)
                         /\ t.scope = authRet.scope
                         /\ t.expiry = authRet.time

(***************************************************************************)
(* Properties of the handlers and of the identity middleware.              *)
(***************************************************************************)
CallNames(calls) == {calls[i].fn : i \in DOMAIN calls}

NoStoreError(calls) == \A i \in DOMAIN calls : calls[i].err = NoError

\* This step serves a PATCH or a DELETE, with an identity attached, on the
\* id of a workout row that exists when the request arrives.
PatchOrDeleteOnExisting ==
    /\ http'.n # http.n
    /\ http'.via = "SetUser"
    /\ http'.handler \in {"HandleUpdateWorkout", "HandleDeleteWorkout"}
    /\ http'.r.id \in DOMAIN Decimal
    /\ \E w \in workouts : w.id = Decimal[http'.r.id]

RecordedOwner(id) == (CHOOSE w \in workouts : w.id = id).user_id

\* This step calls neither UpdateWorkout nor DeleteWorkout and leaves the
\* rows as they were.
NothingWritten ==
    /\ CallNames(http'.calls) \cap {"UpdateWorkout", "DeleteWorkout"} = {}
    /\ UNCHANGED <<workouts, workout_entries>>

\* C3, as stated: a PATCH or DELETE on an existing workout, no store call
\* failing, is answered 401 for the anonymous identity, before the owner is
\* looked up, and 403 for a user who is not the recorded owner, and in both
\* cases nothing is updated or deleted.
C3_AnonymousIs401NotOwnerIs403 ==
    [][(PatchOrDeleteOnExisting /\ NoStoreError(http'.calls)) =>
        LET user == http'.r.ctx[1] IN
        /\ IsAnonymous(user) =>
              /\ http'.status = 401
              /\ "GetWorkoutOwner" \notin CallNames(http'.calls)
              /\ NothingWritten
        /\ (~IsAnonymous(user) /\ RecordedOwner(Decimal[http'.r.id]) # user.ID) =>
              /\ http'.status = 403
              /\ NothingWritten]_vars

\* C3, amended: a PATCH or DELETE on an existing workout by the anonymous
\* identity or by a user who is not the recorded owner never calls
\* UpdateWorkout or DeleteWorkout and leaves the rows unchanged, and for the
\* anonymous identity the owner is never looked up; when the body of a PATCH
\* decodes and no store call fails the answer is 401 for the anonymous
\* identity and 403 for the other user; a PATCH whose body does not decode
\* is answered 400 whoever sends it.
C3_RejectedWhenBodyDecodes ==
    [][PatchOrDeleteOnExisting =>
        LET user == http'.r.ctx[1]
            decodes == http'.r.body # Malformed
            ok == NoStoreError(http'.calls)
        IN
        /\ IsAnonymous(user) =>
              /\ "GetWorkoutOwner" \notin CallNames(http'.calls)
              /\ NothingWritten
              /\ (decodes /\ ok) => http'.status = 401
        /\ (~IsAnonymous(user) /\ RecordedOwner(Decimal[http'.r.id]) # user.ID) =>
              /\ NothingWritten
              /\ (decodes /\ ok) => http'.status = 403
        /\ (~decodes /\ ok) => http'.status = 400]_vars

\* A PATCH that would rename the workout, sent by a user who is not its
\* owner, was answered 403 and the row still has its title.
C3_Witness ==
    /\ http.via = "SetUser"
    /\ http.handler = "HandleUpdateWorkout"
    /\ http.status = 403
    /\ http.r.body # Malformed
    /\ http.r.body.Title = <<"Arms">>
    /\ ~IsAnonymous(http.r.ctx[1])
    /\ \E w \in workouts : /\ w.id = Decimal[http.r.id]
                           /\ w.user_id # http.r.ctx[1].ID
                           /\ w.title = "Legs"

\* This step serves, through the middleware, a request whose Authorization
\* header is "Bearer <token>".
BearerRequest ==
    /\ http'.n # http.n
    /\ http'.via = "Middleware"
    /\ Len(http'.r.header) = 3
    /\ http'.r.header[1] = "Bearer"
    /\ http'.r.header[2] = SP
    /\ http'.r.header[3] \in TokenPlaintexts

\* The token rows that make the token of the header valid when the request
\* arrives: its digest, the authentication scope, not yet expired.
ValidBearerTokens == TokenQuery(Sum256(http'.r.header[3]), ScopeAuth, now)

\* C4: a request with a well-formed Bearer header whose token validates to a
\* user goes on to the next handler, once, with exactly that user attached.
C4_ValidTokenAttachesUser ==
    [][(BearerRequest /\ ValidBearerTokens # {}) =>
        /\ http'.next = 1
        /\ http'.r.ctx # <<>>
        /\ \E t \in ValidBearerTokens : http'.r.ctx[1].ID = t.user_id]_vars

\* C5: a request with a well-formed Bearer header whose token does not
\* validate is answered 401, or with a 5xx status when the lookup itself
\* fails, and the next handler is not called.
C5_InvalidTokenIs401 ==
    [][(BearerRequest /\ ValidBearerTokens = {}) =>
        /\ http'.status = 401 \/ http'.status \in 500..599
        /\ http'.next = 0]_vars

\* "Bearer", one space, and a rest without a space: the headers that are
\* exactly two space-separated parts, the first of them "Bearer".
BearerForm(header) ==
    /\ Len(header) >= 2
    /\ header[1] = "Bearer"
    /\ header[2] = SP
    /\ \A i \in 3..Len(header) : header[i] # SP

C7_AbsentHeaderIsAnonymous ==
    (http.via = "Middleware" /\ http.r.header = <<>>) =>
        /\ http.next = 1
        /\ http.r.ctx = <<AnonymousUser>>
        /\ GetUser(http.r).panic = ""
        /\ IsAnonymous(GetUser(http.r).user)
        /\ http.panic # "missing user in request"
        /\ (http.handler = "HandleCreateWorkout" /\ http.r.body # Malformed) =>
              http.status = 401

\* A POST without an Authorization header, its body a workout, went through
\* the middleware and HandleCreateWorkout answered 401.
C7_Witness ==
    /\ http.via = "Middleware"
    /\ http.r.header = <<>>
    /\ http.handler = "HandleCreateWorkout"
    /\ http.r.body # Malformed
    /\ http.next = 1
    /\ http.status = 401

\* C8: no request served through the route table ends in GetUser's panic
\* for a missing user.
C8_RoutedRequestsHaveIdentity ==
    http.via = "SetupRoutes" => http.panic # "missing user in request"

(***************************************************************************)
(* Properties of the workout handlers.                                     *)
(***************************************************************************)

\* C14: a GET /workouts/{id} whose store call fails is answered 500; one
\* whose store call finds no workout of the id is answered 404; and an
\* answer of 200 carries a workout, that of a row of the table.
C14_NoneIs404ErrorIs500 ==
    (/\ http.via \in {"SetupRoutes", "SetUser"}
     /\ http.handler = "HandleGetWorkoutByID"
     /\ http.calls # <<>>) =>
        LET rows == {w \in workouts : w.id = Decimal[http.r.id]} IN
        /\ http.calls[1].err # NoError => http.status = 500
        /\ (http.calls[1].err = NoError /\ rows = {}) => http.status = 404
        /\ http.status = 200 =>
              /\ http.body.workout # NULL
              /\ \E w \in rows : http.body.workout.ID = w.id

\* This step serves a PATCH or a DELETE, with an identity attached, on a
\* well-formed id that no workout row has when the request arrives, and the
\* lookup of the workout does not fail.
PatchOrDeleteOnAbsent ==
    /\ http'.n # http.n
    /\ http'.via = "SetUser"
    /\ http'.handler \in {"HandleUpdateWorkout", "HandleDeleteWorkout"}
    /\ http'.r.id \in DOMAIN Decimal
    /\ \A w \in workouts : w.id # Decimal[http'.r.id]
    /\ http'.calls # <<>>
    /\ http'.calls[1].err = NoError

\* C15: a PATCH or DELETE on a well-formed id that no workout has is
\* answered 404, whatever the identity and the body, without a panic and
\* without a call of UpdateWorkout or DeleteWorkout or a change of the rows.
C15_AbsentIs404 ==
    [][PatchOrDeleteOnAbsent =>
        /\ http'.status = 404
        /\ http'.panic = ""
        /\ NothingWritten]_vars

\* This step serves a POST /workouts with an identity attached.
PostWithUser ==
    /\ http'.n # http.n
    /\ http'.via = "SetUser"
    /\ http'.handler = "HandleCreateWorkout"

\* The answer is 201 with a workout of user's id, stored under that id.
CreatedFor(user) ==
    /\ http'.status = 201
    /\ http'.body.workout # NULL
    /\ http'.body.workout.UserID = user.ID
    /\ \E w \in workouts' \ workouts :
          /\ w.id = http'.body.workout.ID
          /\ w.user_id = user.ID

\* The answer is 401, CreateWorkout was not called and no row was written.
RefusedUnauthenticated ==
    /\ http'.status = 401
    /\ "CreateWorkout" \notin CallNames(http'.calls)
    /\ UNCHANGED <<workouts, workout_entries>>

MalformedRequest ==
    /\ http'.n # http.n
    /\ http'.via \in {"SetupRoutes", "SetUser"}
    /\ http'.handler \in {"HandleGetWorkoutByID", "HandleCreateWorkout",
                          "HandleUpdateWorkout", "HandleDeleteWorkout"}
    /\ \/ /\ http'.handler # "HandleCreateWorkout"
          /\ http'.r.id \notin DOMAIN Decimal
       \/ http'.r.body = Malformed

\* C20: a workout request with a malformed id or a malformed body is
\* answered with a 4xx status and leaves the rows as they were.
C20_MalformedIs4xx ==
    [][MalformedRequest =>
        /\ http'.status \in 400..499
        /\ UNCHANGED <<workouts, workout_entries>>]_vars

(***************************************************************************)
(* Properties of the token handler.                                        *)
(***************************************************************************)

\* This step serves a POST /tokens/authentication whose body decodes, with
\* no store call failing, for a username that has no row or for a user whose
\* stored hash is of another password.
UnknownUserOrWrongPassword ==
    /\ http'.n # http.n
    /\ http'.handler = "HandleCreateToken"
    /\ http'.r.body # Malformed
    /\ NoStoreError(http'.calls)
    /\ LET known == {u \in users : u.username = http'.r.body.username} IN
        \/ known = {}
        \/ \E u \in known : /\ u.password_hash # <<>>
                            /\ u.password_hash[1].of # http'.r.body.password

\* C16: POST /tokens/authentication answers 401 "Invalid credentials" both
\* for a username that does not exist and for an existing user with a wrong
\* password, and issues no token in either case.
C16_UnknownUserAndWrongPasswordAlike ==
    [][UnknownUserOrWrongPassword =>
        /\ http'.status = 401
        /\ http'.body = ErrorBody("Invalid credentials")
        /\ tokens' = tokens]_vars

\* The errors a (bool, error) pair of Matches can carry: none, or one of
\* bcrypt.CompareHashAndPassword.
MatchesErrors == {NoError, "ErrHashTooShort", "ErrMismatchedHashAndPassword"}

\* The response carries a token plaintext.
HasAuthToken(body) == "auth_token" \in DOMAIN body

\* C17: the token handler calls CreateNewToken, and answers with an
\* auth_token, only after Matches returned exactly (true, nil); an
\* auth_token in the response is one whose row was stored, so a failed
\* CreateNewToken puts no plaintext in the response.  Every other pair,
\* (false, nil) and (false, err) among them, is refused by the handler.
C17_TokenOnlyAfterMatchesTrueNil ==
    /\ \A ok \in BOOLEAN, err \in MatchesErrors :
          <<ok, err>> # <<TRUE, NoError>> => CredentialsRejected(ok, err)
    /\ http.via = "TokenHandler" =>
        /\ ("CreateNewToken" \in CallNames(http.calls) \/ HasAuthToken(http.body))
              => http.matches = << <<TRUE, NoError>> >>
        /\ HasAuthToken(http.body) =>
              /\ http.status = 201
              /\ NoStoreError(http.calls)
              /\ \E t \in tokens : t.hash = Sum256(http.body.auth_token)

\* A user registered with the hash of "hunter2" logged in with "hunter2" and
\* was answered 201 with the plaintext of a stored token of theirs.
C17_Witness ==
    /\ http.via = "TokenHandler"
    /\ http.status = 201
    /\ http.r.body.password = "hunter2"
    /\ http.matches = << <<TRUE, NoError>> >>
    /\ \E u \in users :
          /\ u.username = http.r.body.username
          /\ u.password_hash = GenerateFromPassword("hunter2", 12)
          /\ \E t \in tokens : /\ t.hash = Sum256(http.body.auth_token)
                               /\ t.user_id = u.id
                               /\ t.scope = ScopeAuth

(***************************************************************************)
(* Properties of the request context.                                      *)
(***************************************************************************)

\* C21: GetUser panics on a request with nothing under userContextKey and
\* gives no user then, the anonymous user least of all; on the request
\* SetUser(r, u) returns it gives exactly u, for every user u and for
\* AnonymousUser.  A handler that asks for the user of a request without one
\* ends in that panic and writes no response.
C21_GetUserPanicsOrYieldsTheSetUser ==
    http.via # "none" =>
        /\ http.r.ctx = <<>> =>
              /\ GetUser(http.r).panic = "missing user in request"
              /\ GetUser(http.r).user = NULL
        /\ \A u \in Identities :
              GetUser(SetUser(http.r, u)) = [user |-> u, panic |-> ""]
        /\ (/\ http.r.ctx = <<>>
            /\ http.handler = "HandleCreateWorkout"
            /\ http.r.body # Malformed) =>
              /\ http.panic = "missing user in request"
              /\ http.status = 0

\* A POST /workouts that came without a user in its context ended in the
\* panic of GetUser, with no response and no row written.
C21_Witness ==
    /\ http.via = "SetupRoutes"
    /\ http.handler = "HandleCreateWorkout"
    /\ http.r.ctx = <<>>
    /\ http.panic = "missing user in request"
    /\ http.status = 0
    /\ workouts = {}

\* C22: every response to a request that went through the identity
\* middleware carries the header Vary: Authorization, whether the next
\* handler wrote it or the middleware itself rejected the Authorization
\* header.
C22_VaryAuthorizationOnEveryResponse ==
    http.via = "Middleware" => <<"Vary", "Authorization">> \in http.headers

\* The 401 for an Authorization header of one part, "Bearer" alone, carries
\* Vary: Authorization.
C22_Witness ==
    /\ http.via = "Middleware"
    /\ http.r.header = <<"Bearer">>
    /\ http.status = 401
    /\ http.body = ErrorBody("invalid authorization header format")
    /\ <<"Vary", "Authorization">> \in http.headers

(***************************************************************************)
(* Properties of the start of the process.                                 *)
(***************************************************************************)

\* C23: NewApplication has returned an Application, ListenAndServe runs and
\* a request has been answered only if the database was opened and the
\* migration returned without error; a process that ended on a failed open
\* or a failed migration has no Application and never answered a request.
C23_ServesOnlyAfterMigration ==
    /\ (main.app \/ main.pc = "ListenAndServe" \/ http.via # "none") =>
          main.opened /\ main.migrated
    /\ (main.pc = "exit" /\ ~main.migrated) =>
          /\ main.exit \in {"panic: failed to connect to the database",
                            "panic: migration failed"}
          /\ ~main.app
          /\ http.via = "none"

\* The migration succeeded and the server, on the port of the flag, has
\* answered GET /health with 200.
C23_Witness ==
    /\ main.pc = "ListenAndServe"
    /\ main.port = 3000
    /\ main.migrated
    /\ http.via = "ListenAndServe"
    /\ http.handler = "HealthCheck"
    /\ http.status = 200

=============================================================================
